---- MODULE Spec2Model ----
(***************************************************************************)
(* A model of the EPUB CFI core of repub (src/src/epub/epubcfi.ts):        *)
(* tokenizer, parser, serializer, range builder, the tree indexer, and     *)
(* the resource Loader of the same file.                                   *)
(*                                                                         *)
(* Representation.  A JavaScript string is a sequence of one-character     *)
(* strings.  An optional value is a sequence of length 0 (null/undefined)  *)
(* or 1.  parseInt yields a natural number or NaN; parseFloat yields a     *)
(* record [int, frac] (frac: the fractional digits, no trailing zeros) or  *)
(* NaNf.  A thrown TypeError is a result of kind "threw".                  *)
(***************************************************************************)
EXTENDS Integers, Sequences, FiniteSets, TLC

VARIABLES
  op, inA, inB,     \* text pipeline: the operation and its inputs
  str,              \* the CFI string handed to parse
  chars, tk,        \* tokenizer: characters left, and state/escape/value/tokens
  out,              \* what parse returned
  pc,               \* position in the text pipeline
  doc, useFilter,   \* tree pipeline: the document, and whether a filter is passed
  tparts, telems,   \* a Path to resolve; the nodes an operation is given
  tres,             \* what partsToNode / fromElements returned
  trange,           \* the Range toRange built
  tder,             \* what fromRange / nodeToParts derived
  tpc,              \* position in the tree pipeline
  manifest,         \* Loader: the manifest items, by href
  cache,            \* Loader.cache: href -> object URL
  children,         \* Loader.children: href -> list of hrefs
  refCount,         \* Loader.refCount: href -> count
  tasks,            \* the loadItem calls in flight, each a stack of awaiting frames
  ustack,           \* the unref calls whose while loop is running
  nurls, revoked,   \* object URLs created so far (1..nurls), and those revoked
  held,             \* per href, top-level loads that returned a URL minus unloads
  calls,            \* top-level loadItem calls made
  sequential,       \* no call has yet been made while another was in flight
  destroyed         \* destroy() has run

cfiVars == <<op, inA, inB, str, chars, tk, out, pc>>
treeVars == <<doc, useFilter, tparts, telems, tres, trange, tder, tpc>>
ldVars == <<manifest, cache, children, refCount, tasks, ustack, nurls, revoked,
           held, calls, sequential, destroyed>>
vars == <<op, inA, inB, str, chars, tk, out, pc,
          doc, useFilter, tparts, telems, tres, trange, tder, tpc,
          manifest, cache, children, refCount, tasks, ustack, nurls, revoked,
          held, calls, sequential, destroyed>>

\* the Loader is not in use
NoLoader ==
  /\ manifest = <<>> /\ cache = <<>> /\ children = <<>> /\ refCount = <<>>
  /\ tasks = <<>> /\ ustack = <<>> /\ nurls = 0 /\ revoked = {}
  /\ held = <<>> /\ calls = 0 /\ sequential = TRUE /\ destroyed = FALSE

-----------------------------------------------------------------------------
(* Bounds of the model. *)

MaxIndex == 3
MaxRawLen == 3
MaxPointFrags == 4
MaxSubFrags == 2
MaxIdLen == 2
MaxRangeIndex == 2
MaxLocalLen == 2
MaxRangeOffset == 1
MaxKids == 2
MaxSlot == 7
MaxTreeOffset == 4
MaxIndexKids == 3

-----------------------------------------------------------------------------
(* Optional values, sequences. *)

None == <<>>
Some(x) == <<x>>
IsSome(o) == o # <<>>

Last(s) == s[Len(s)]
Front(s) == SubSeq(s, 1, Len(s) - 1)

RECURSIVE Flatten(_)
Flatten(ss) == IF ss = <<>> THEN <<>> ELSE Head(ss) \o Flatten(Tail(ss))

RECURSIVE Join(_, _)
Join(ss, sep) ==
  IF ss = <<>> THEN <<>>
  ELSE IF Len(ss) = 1 THEN ss[1]
  ELSE ss[1] \o sep \o Join(Tail(ss), sep)

SeqsUpTo(S, n) == UNION {[1..k -> S] : k \in 0..n}

-----------------------------------------------------------------------------
(* Numbers and their decimal text. *)

Digits == {"0", "1", "2", "3", "4", "5", "6", "7", "8", "9"}
DigitChars == <<"0", "1", "2", "3", "4", "5", "6", "7", "8", "9">>
DigitVal(c) == CHOOSE n \in 0..9 : DigitChars[n + 1] = c

\* isNumberReg = /\d/, tested on one character ('' at the end of the input)
isNumber(c) == c \in Digits

\* NaN: parseInt of digit strings is never negative, so -2 is free to stand for it
\* (-1 is what findIndex returns)
NaN == 0 - 2
NaNf == [int |-> NaN, frac |-> <<>>]

RECURSIVE DigitsVal(_)
DigitsVal(v) ==
  IF v = <<>> THEN 0 ELSE DigitsVal(Front(v)) * 10 + DigitVal(Last(v))

\* parseInt(value), value holding decimal digits only
parseInt(v) == IF v = <<>> THEN NaN ELSE DigitsVal(v)

RECURSIVE TakeDigits(_)
TakeDigits(v) ==
  IF v = <<>> \/ Head(v) = "." THEN <<>> ELSE <<Head(v)>> \o TakeDigits(Tail(v))

RECURSIVE StripZeros(_)
StripZeros(v) ==
  IF v # <<>> /\ Last(v) = "0" THEN StripZeros(Front(v)) ELSE v

\* parseFloat(value), value holding decimal digits and '.' only: the longest
\* prefix that is a decimal literal
parseFloat(v) ==
  LET ip == TakeDigits(v)
      rest == SubSeq(v, Len(ip) + 1, Len(v))
      fp == IF rest = <<>> THEN <<>> ELSE TakeDigits(Tail(rest))
  IN IF ip = <<>> /\ fp = <<>> THEN NaNf
     ELSE [int |-> DigitsVal(ip), frac |-> StripZeros(fp)]

\* `${n}` of an integer-valued number
RECURSIVE IntToStr(_)
IntToStr(n) ==
  IF n = NaN THEN <<"N", "a", "N">>
  ELSE IF n < 10 THEN <<DigitChars[n + 1]>>
  ELSE IntToStr(n \div 10) \o <<DigitChars[(n % 10) + 1]>>

\* `${x}` of a number read by parseFloat
NumToStr(x) ==
  IF x = NaNf THEN <<"N", "a", "N">>
  ELSE IntToStr(x.int) \o (IF x.frac = <<>> THEN <<>> ELSE <<".">> \o x.frac)

\* JavaScript truthiness of a number: neither 0 nor NaN
NumTruthy(x) == x # NaNf /\ ~(x.int = 0 /\ x.frac = <<>>)
IntTruthy(n) == n # NaN /\ n # 0

-----------------------------------------------------------------------------
(* The envelope and escaping. *)

Envelope == <<"e", "p", "u", "b", "c", "f", "i", "(">>

\* isCFIReg = /^epubcfi\((.*)\)$/ (the model's alphabet has no line terminator)
isCFIReg(x) ==
  /\ Len(x) >= Len(Envelope) + 1
  /\ SubSeq(x, 1, Len(Envelope)) = Envelope
  /\ Last(x) = ")"

wrap(x) == IF isCFIReg(x) THEN x ELSE Envelope \o x \o <<")">>

unwrap(x) == IF isCFIReg(x) THEN SubSeq(x, Len(Envelope) + 1, Len(x) - 1) ELSE x

SpecialChars == {"^", "[", "]", "(", ")", ",", ";", "="}

\* str.replace(/[\^[\](),;=]/g, '^$&')
RECURSIVE escapeCFI(_)
escapeCFI(s) ==
  IF s = <<>> THEN <<>>
  ELSE (IF Head(s) \in SpecialChars THEN <<"^", Head(s)>> ELSE <<Head(s)>>)
       \o escapeCFI(Tail(s))

\* str.trim(), over the one white-space character of the model's alphabet
RECURSIVE trimStart(_)
trimStart(s) == IF s # <<>> /\ Head(s) = " " THEN trimStart(Tail(s)) ELSE s
RECURSIVE trimEnd(_)
trimEnd(s) == IF s # <<>> /\ Last(s) = " " THEN trimEnd(Front(s)) ELSE s
trim(s) == trimEnd(trimStart(s))

-----------------------------------------------------------------------------
(* tokenizer: one iteration of its loop over the characters. *)

LeadChars == {"/", ":", "~", "@", "[", "!", ","}

Tok(type, val) == [type |-> type, val |-> val]

TkInit == [state |-> <<>>, escape |-> FALSE, value |-> <<>>, tokens |-> <<>>]

\* push = (x) => (tokens.push(x), (state = null), (value = ''))
push(t, x) == [t EXCEPT !.tokens = Append(@, x), !.state = <<>>, !.value = <<>>]

\* cat = (x) => ((value += x), (escape = false)); x is '' at the end of the input
cat(t, c) ==
  [t EXCEPT !.value = IF c = "" THEN @ ELSE Append(@, c), !.escape = FALSE]

\* the loop's last statement: a lead character switches the state
lead(t, c) == IF c \in LeadChars THEN [t EXCEPT !.state = <<c>>] ELSE t

tokenizerStep(t, c) ==
  IF c = "^" /\ ~t.escape THEN [t EXCEPT !.escape = TRUE]
  ELSE IF t.state = <<"!">> THEN lead(push(t, Tok(<<"!">>, None)), c)
  ELSE IF t.state = <<",">> THEN lead(push(t, Tok(<<",">>, None)), c)
  ELSE IF t.state = <<"/">> \/ t.state = <<":">> THEN
    IF isNumber(c) THEN cat(t, c)
    ELSE lead(push(t, Tok(t.state, parseInt(t.value))), c)
  ELSE IF t.state = <<"~">> THEN
    IF isNumber(c) \/ c = "." THEN cat(t, c)
    ELSE lead(push(t, Tok(<<"~">>, parseFloat(t.value))), c)
  ELSE IF t.state = <<"@">> THEN
    IF c = ":" THEN
      [push(t, Tok(<<"@">>, parseFloat(t.value))) EXCEPT !.state = <<"@">>]
    ELSE IF isNumber(c) \/ c = "." THEN cat(t, c)
    ELSE lead(push(t, Tok(<<"@">>, parseFloat(t.value))), c)
  ELSE IF t.state = <<"[">> THEN
    IF c = ";" /\ ~t.escape THEN
      [push(t, Tok(<<"[">>, t.value)) EXCEPT !.state = <<";">>]
    ELSE IF c = "," /\ ~t.escape THEN
      [push(t, Tok(<<"[">>, t.value)) EXCEPT !.state = <<"[">>]
    ELSE IF c = "]" /\ ~t.escape THEN push(t, Tok(<<"[">>, t.value))
    ELSE cat(t, c)
  ELSE IF t.state # <<>> /\ Head(t.state) = ";" THEN
    IF c = "=" /\ ~t.escape THEN
      [t EXCEPT !.state = <<";">> \o t.value, !.value = <<>>]
    ELSE IF c = ";" /\ ~t.escape THEN
      [push(t, Tok(t.state, t.value)) EXCEPT !.state = <<";">>]
    ELSE IF c = "]" /\ ~t.escape THEN push(t, Tok(t.state, t.value))
    ELSE cat(t, c)
  ELSE lead(t, c)

\* Array.from(str.trim()).concat('')
tokenizerChars(s) == Append(trim(s), "")

RECURSIVE tokenizerRun(_, _)
tokenizerRun(t, cs) ==
  IF cs = <<>> THEN t ELSE tokenizerRun(tokenizerStep(t, Head(cs)), Tail(cs))

tokenizer(s) == tokenizerRun(TkInit, tokenizerChars(s)).tokens

-----------------------------------------------------------------------------
(* parser: tokens of one segment folded into Parts. *)

NewPart(i) ==
  [index |-> i, offset |-> None, temporal |-> None, spatial |-> None,
   side |-> None, id |-> None, text |-> None]

PsInit == [parts |-> <<>>, state |-> <<>>, threw |-> FALSE]

\* token types whose branch writes to (or reads a field of) `last`
DerefTypes == {<<":">>, <<"~">>, <<"@">>, <<";", "s">>, <<"[">>}

SetLast(parts, p) == [parts EXCEPT ![Len(parts)] = p]

parserStepNoThrow(a, tok) ==
  LET type == tok.type
      val == tok.val
      last == IF a.parts = <<>> THEN NewPart(NaN) ELSE Last(a.parts)
      upd(p) == IF a.parts = <<>> THEN a.parts ELSE SetLast(a.parts, p)
  IN IF a.threw THEN a
     ELSE IF type = <<"/">> THEN
       [a EXCEPT !.parts = Append(@, NewPart(val)), !.state = type]
     ELSE IF type = <<":">> THEN
       [a EXCEPT !.parts = upd([last EXCEPT !.offset = Some(val)]), !.state = type]
     ELSE IF type = <<"~">> THEN
       [a EXCEPT !.parts = upd([last EXCEPT !.temporal = Some(val)]), !.state = type]
     ELSE IF type = <<"@">> THEN
       [a EXCEPT !.parts = upd([last EXCEPT !.spatial =
                     Some((IF IsSome(@) THEN @[1] ELSE <<>>) \o <<val>>)]),
                 !.state = type]
     ELSE IF type = <<";", "s">> THEN
       [a EXCEPT !.parts = upd([last EXCEPT !.side = Some(val)]), !.state = type]
     ELSE IF type = <<"[">> THEN
       IF a.state = <<"/">> /\ val # <<>> THEN
         [a EXCEPT !.parts = upd([last EXCEPT !.id = Some(val)]), !.state = type]
       ELSE
         [a EXCEPT !.parts = upd([last EXCEPT !.text =
                     Some((IF IsSome(@) THEN @[1] ELSE <<>>) \o <<val>>)])]
     ELSE [a EXCEPT !.state = type]

\* one iteration of the loop of parser: `last` is parts[parts.length - 1]!,
\* undefined while parts is empty, and every branch but '/' and an unknown
\* ';name' dereferences it
parserStep(a, tok) ==
  IF ~a.threw /\ a.parts = <<>> /\ tok.type \in DerefTypes
  THEN [a EXCEPT !.threw = TRUE]
  ELSE parserStepNoThrow(a, tok)

RECURSIVE parserRun(_, _)
parserRun(a, toks) ==
  IF toks = <<>> THEN a ELSE parserRun(parserStep(a, Head(toks)), Tail(toks))

\* the result of parser: [threw, parts]
parser(toks) == parserRun(PsInit, toks)

\* findTokens = (tokens, x) => findIndices(tokens, ([t]) => t === x), 1-based
RECURSIVE findIndicesFrom(_, _, _)
findIndicesFrom(toks, x, i) ==
  IF i > Len(toks) THEN <<>>
  ELSE (IF toks[i].type = x THEN <<i>> ELSE <<>>) \o findIndicesFrom(toks, x, i + 1)

findTokens(toks, x) == findIndicesFrom(toks, x, 1)

\* splitAt: [-1, ...is, arr.length].reduce(..., {xs: [], a: -1}).  The reduce
\* has an initial value, so its callback also runs for the leading -1, with
\* a = -1 and b = -1: the first slice is arr.slice(0, -1), every element but
\* the last.  The slices between consecutive cut indices follow it.  (is holds
\* 1-based positions.)
splitAt(arr, is) ==
  LET bs == is \o <<Len(arr) + 1>>
  IN <<Front(arr)>> \o
     [k \in 1..Len(bs) |-> SubSeq(arr, (IF k = 1 THEN 1 ELSE bs[k - 1] + 1), bs[k] - 1)]

\* parserIndir = splitAt(tokens, findTokens(tokens, '!')).map(parser);
\* a TypeError of one segment propagates
parserIndir(toks) ==
  LET segs == splitAt(toks, findTokens(toks, <<"!">>))
      rs == [k \in 1..Len(segs) |-> parser(segs[k])]
  IN [threw |-> \E k \in 1..Len(rs) : rs[k].threw,
      paths |-> [k \in 1..Len(rs) |-> rs[k].parts]]

ParsedThrew == [kind |-> "threw"]
ParsedPath(ps) == [kind |-> "path", path |-> ps]
ParsedRange(p, s, e) ==
  [kind |-> "range", parent |-> p, start |-> s, end |-> e]

\* parse, from the tokens on (lines 363-366).  splitAt returns at least three
\* slices when there is a ',' token; parserIndir runs on all of them and the
\* first three are destructured into parent, start and end.
parseTokens(toks) ==
  LET commas == findTokens(toks, <<",">>)
  IN IF commas = <<>> THEN
       LET r == parserIndir(toks)
       IN IF r.threw THEN ParsedThrew ELSE ParsedPath(r.paths)
     ELSE
       LET subs == splitAt(toks, commas)
           rs == [k \in 1..Len(subs) |-> parserIndir(subs[k])]
       IN IF \E k \in 1..Len(rs) : rs[k].threw THEN ParsedThrew
          ELSE ParsedRange(rs[1].paths, rs[2].paths, rs[3].paths)

parse(cfi) == parseTokens(tokenizer(unwrap(cfi)))

-----------------------------------------------------------------------------
(* Serializer. *)

OptGet(o, d) == IF IsSome(o) THEN o[1] ELSE d

\* partToString with the text bracket written right after the step, before
\* the offset
partToStringTextFirst(p) ==
  LET idT == IsSome(p.id) /\ p.id[1] # <<>>
      sideT == IsSome(p.side) /\ p.side[1] # <<>>
      param == IF sideT THEN <<";", "s", "=">> \o p.side[1] ELSE <<>>
  IN <<"/">> \o IntToStr(p.index)
     \o (IF idT THEN <<"[">> \o escapeCFI(p.id[1]) \o param \o <<"]">> ELSE <<>>)
     \o (IF IsSome(p.text) \/ (~idT /\ sideT)
         THEN <<"[">>
              \o (IF IsSome(p.text)
                  THEN Join([k \in 1..Len(p.text[1]) |-> escapeCFI(p.text[1][k])], <<",">>)
                  ELSE <<>>)
              \o param \o <<"]">>
         ELSE <<>>)
     \o (IF IsSome(p.offset) /\ p.index # NaN /\ p.index % 2 = 1
         THEN <<":">> \o IntToStr(p.offset[1]) ELSE <<>>)
     \o (IF IsSome(p.temporal) /\ NumTruthy(p.temporal[1])
         THEN <<"~">> \o NumToStr(p.temporal[1]) ELSE <<>>)
     \o (IF IsSome(p.spatial)
         THEN <<"@">> \o Join([k \in 1..Len(p.spatial[1]) |-> NumToStr(p.spatial[1][k])], <<":">>)
         ELSE <<>>)

\* partToString (lines 170-181): `id ?`, `temporal ?`, `side ?` test truthiness
partToString(p) ==
  LET idT == IsSome(p.id) /\ p.id[1] # <<>>
      sideT == IsSome(p.side) /\ p.side[1] # <<>>
      param == IF sideT THEN <<";", "s", "=">> \o p.side[1] ELSE <<>>
  IN <<"/">> \o IntToStr(p.index)
     \o (IF idT THEN <<"[">> \o escapeCFI(p.id[1]) \o param \o <<"]">> ELSE <<>>)
     \o (IF IsSome(p.offset) /\ p.index # NaN /\ p.index % 2 = 1
         THEN <<":">> \o IntToStr(p.offset[1]) ELSE <<>>)
     \o (IF IsSome(p.temporal) /\ NumTruthy(p.temporal[1])
         THEN <<"~">> \o NumToStr(p.temporal[1]) ELSE <<>>)
     \o (IF IsSome(p.spatial)
         THEN <<"@">> \o Join([k \in 1..Len(p.spatial[1]) |-> NumToStr(p.spatial[1][k])], <<":">>)
         ELSE <<>>)
     \o (IF IsSome(p.text) \/ (~idT /\ sideT)
         THEN <<"[">>
              \o (IF IsSome(p.text)
                  THEN Join([k \in 1..Len(p.text[1]) |-> escapeCFI(p.text[1][k])], <<",">>)
                  ELSE <<>>)
              \o param \o <<"]">>
         ELSE <<>>)

\* parts.map(partToString).join('') for each Path, joined with '!'
pathsToString(ps) ==
  Join([k \in 1..Len(ps) |-> Flatten([j \in 1..Len(ps[k]) |-> partToString(ps[k][j])])],
       <<"!">>)

\* toInnerString of a {parent, start, end} triple
rangeToInnerString(r) ==
  Join(<<pathsToString(r.parent), pathsToString(r.start), pathsToString(r.end)>>, <<",">>)

toStringPaths(ps) == wrap(pathsToString(ps))
toStringRange(r) == wrap(rangeToInnerString(r))

-----------------------------------------------------------------------------
(* Range builder. *)

\* concatArrays(a, b): b[0] ?? [] and b.slice(1)
concatArrays(a, b) ==
  Front(a) \o <<Last(a) \o (IF b = <<>> THEN <<>> ELSE b[1])>>
  \o (IF b = <<>> THEN <<>> ELSE Tail(b))

\* collapse of a parsed value
collapse(x, toEnd) ==
  IF x.kind = "range" THEN concatArrays(x.parent, IF toEnd THEN x.end ELSE x.start)
  ELSE x.path

\* !a?.offset
NoOffset(p) == ~(IsSome(p.offset) /\ IntTruthy(p.offset[1]))

RECURSIVE buildRangeLoop(_, _, _, _)
buildRangeLoop(lf, lt, i, acc) ==
  IF i > (IF Len(lf) > Len(lt) THEN Len(lf) ELSE Len(lt)) THEN acc
  ELSE
    LET hasA == i <= Len(lf)
        hasB == i <= Len(lt)
        pushToParent == acc.push /\ hasA /\ hasB /\ lf[i].index = lt[i].index
                        /\ NoOffset(lf[i]) /\ NoOffset(lt[i])
    IN buildRangeLoop(lf, lt, i + 1,
         IF pushToParent THEN [acc EXCEPT !.parent = Append(@, lf[i])]
         ELSE [push |-> FALSE, parent |-> acc.parent,
               start |-> IF hasA THEN Append(acc.start, lf[i]) ELSE acc.start,
               end |-> IF hasB THEN Append(acc.end, lt[i]) ELSE acc.end])

\* the {parent, start, end} that buildRange hands to toString (lines 293-321);
\* from and to are Indirect Paths (collapse is the identity on them)
buildRangeParts(from, to) ==
  LET acc == buildRangeLoop(Last(from), Last(to), 1,
                            [push |-> TRUE, parent |-> <<>>, start |-> <<>>, end |-> <<>>])
  IN [parent |-> Front(from) \o <<acc.parent>>,
      start |-> <<acc.start>>, end |-> <<acc.end>>]

buildRange(from, to) == toStringRange(buildRangeParts(from, to))

-----------------------------------------------------------------------------
(* Inputs of the text pipeline. *)

Str_before == <<"b", "e", "f", "o", "r", "e">>

Num(i, f) == [int |-> i, frac |-> f]

IndexSet == 0..MaxIndex \cup {10}
OffsetSet == {None, Some(0), Some(1)}
TemporalSet == {None, Some(Num(0, <<>>)), Some(Num(1, <<"5">>))}
SpatialSet == {None, Some(<<Num(1, <<>>), Num(2, <<"5">>)>>)}
IdSet == {None, Some(<<"a">>)}
TextSet == {None, Some(<< <<"a">> >>), Some(<< <<"a">>, <<"b">> >>)}
SideSet == {None, Some(Str_before)}

\* every combination of the fields of a Part
PartSet ==
  [index : IndexSet, offset : OffsetSet, temporal : TemporalSet,
   spatial : SpatialSet, side : SideSet, id : IdSet, text : TextSet]

\* Parts of steps and offsets only
PlainPart(i, o) == [NewPart(i) EXCEPT !.offset = o]

\* Parts whose id or text is a string over the special characters
EscAlphabet == SpecialChars \cup {"a"}
EscStrings == SeqsUpTo(EscAlphabet, MaxIdLen)
EscParts ==
  {[PlainPart(f[1], f[2]) EXCEPT !.id = IF isId THEN Some(s) ELSE None,
                                 !.text = IF isId THEN None ELSE Some(<<s>>),
                                 !.side = sd] :
     f \in {<<2, None>>, <<3, None>>, <<3, Some(1)>>},
     isId \in BOOLEAN, s \in EscStrings, sd \in SideSet}

RoundTripPaths ==
  {<< <<p>> >> : p \in PartSet \cup EscParts}
  \cup {<< <<PlainPart(i, None), PlainPart(j, o)>> >> :
          i \in 0..MaxIndex, j \in 0..MaxIndex, o \in OffsetSet}
  \cup {<< <<PlainPart(i, None)>>, <<PlainPart(j, o)>> >> :
          i \in 0..MaxIndex, j \in 0..MaxIndex, o \in OffsetSet}
  \cup {<< <<>> >>, << <<>>, <<>> >>}

RawAlphabet == {"/", ":", "!", ",", "[", "]", ";", "^", "~", "@", " ", "2", "a"}
ShortRaw == SeqsUpTo(RawAlphabet, MaxRawLen)

PointFrags == {<<"/", "2">>, <<":", "1">>, <<"!">>, <<"[", "a", "]">>}
SubFrags == {<<"/", "2">>, <<":", "1">>, <<"!">>}
PointRaw == {Flatten(fs) : fs \in SeqsUpTo(PointFrags, MaxPointFrags)}
SubRaw == {Flatten(fs) : fs \in SeqsUpTo(SubFrags, MaxSubFrags)}
RangeRaw == {a \o <<",">> \o b \o <<",">> \o c : a \in SubRaw, b \in SubRaw, c \in SubRaw}

\* the example of the specification, and the one src/src/index.ts parses
ExampleCFI == <<"e", "p", "u", "b", "c", "f", "i", "(", "/", "6", "/", "4", "[", "c", "h", "a", "p", "0", "1", "r", "e", "f", "]", "!", "/", "4", "[", "b", "o", "d", "y", "0", "1", "]", "/", "1", "0", "[", "p", "a", "r", "a", "0", "5", "]", "/", "3", ":", "1", "0", ")">>
IndexTsCFI == <<"e", "p", "u", "b", "c", "f", "i", "(", "/", "6", "/", "4", "[", "c", "h", "a", "p", "0", "^", "]", "!", "/", "1", "r", "e", "f", "^", "^", "]", "!", "/", "4", "[", "b", "o", "d", "y", "0", "1", "^", "^", "]", "/", "1", "0", "[", "p", "a", "r", "a", "^", "]", "^", ",", "0", "5", "^", "^", "]", ")">>

\* a step with two assertions, in one bracket and in two
AssertionCFIs ==
  { <<"/", "4", "[", "a", ",", "b", "]">>,
    <<"/", "4", "[", "a", "]", "[", "b", "]">>,
    <<"/", "4", "^", "[", "]">> }

RawStrings ==
  ShortRaw \cup PointRaw \cup RangeRaw
  \cup {wrap(x) : x \in PointRaw} \cup {ExampleCFI, IndexTsCFI} \cup AssertionCFIs

\* endpoints of a range: the same outer segments, a local Path of steps with
\* an offset (on an odd index) at most on its last Part
RangeLocals ==
  {<<>>}
  \cup UNION {{[k \in 1..n |-> PlainPart(is[k], IF k = n THEN o ELSE None)] :
                 is \in [1..n -> 1..MaxRangeIndex],
                 o \in {None} \cup {Some(x) : x \in 0..MaxRangeOffset}} :
              n \in 1..MaxLocalLen}
RangeLocalOk(l) ==
  IF l = <<>> THEN TRUE ELSE (Last(l).offset = None \/ Last(l).index % 2 = 1)
RangeEndpoints == {l \in RangeLocals : RangeLocalOk(l)}
RangeOuters == {<<>>, << <<PlainPart(6, None), PlainPart(4, None)>> >>}

-----------------------------------------------------------------------------
(* The text pipeline as a state machine: an input is serialized (toString or
   buildRange), then parse runs: unwrap, the tokenizer's loop one character
   at a time, then the parser over the tokens. *)

NoTree ==
  /\ doc = <<>> /\ useFilter = FALSE /\ tparts = <<>> /\ telems = <<>>
  /\ tres = <<>> /\ trange = <<>> /\ tder = <<>> /\ tpc = "off"

InitCommon == chars = <<>> /\ tk = TkInit /\ out = <<>> /\ NoTree /\ NoLoader

InitRoundTrip ==
  /\ op = "roundtrip" /\ pc = "input"
  /\ inA \in RoundTripPaths /\ inB = <<>> /\ str = <<>>
  /\ InitCommon

InitParse ==
  /\ op = "parse" /\ pc = "string"
  /\ inA = <<>> /\ inB = <<>> /\ str \in RawStrings
  /\ InitCommon

InitRange ==
  /\ op = "range" /\ pc = "input"
  /\ \E outer \in RangeOuters : \E la \in RangeEndpoints : \E lb \in RangeEndpoints :
       inA = outer \o <<la>> /\ inB = outer \o <<lb>>
  /\ str = <<>>
  /\ InitCommon

\* toString(parsed) of an Indirect Path
Serialize ==
  /\ pc = "input" /\ op = "roundtrip"
  /\ str' = toStringPaths(inA)
  /\ pc' = "string"
  /\ UNCHANGED <<op, inA, inB, chars, tk, out>>
  /\ UNCHANGED <<treeVars, ldVars>>

\* buildRange(from, to), which returns the serialized range
BuildRange ==
  /\ pc = "input" /\ op = "range"
  /\ str' = buildRange(inA, inB)
  /\ pc' = "string"
  /\ UNCHANGED <<op, inA, inB, chars, tk, out>>
  /\ UNCHANGED <<treeVars, ldVars>>

\* parse: tokenizer(unwrap(cfi)) starts
StartParse ==
  /\ pc = "string"
  /\ chars' = tokenizerChars(unwrap(str))
  /\ tk' = TkInit
  /\ pc' = "tokenizing"
  /\ UNCHANGED <<op, inA, inB, str, out>>
  /\ UNCHANGED <<treeVars, ldVars>>

\* one iteration of the tokenizer's loop
TokenizerStep ==
  /\ pc = "tokenizing" /\ chars # <<>>
  /\ tk' = tokenizerStep(tk, Head(chars))
  /\ chars' = Tail(chars)
  /\ UNCHANGED <<op, inA, inB, str, out, pc>>
  /\ UNCHANGED <<treeVars, ldVars>>

\* the rest of parse, over the tokens the tokenizer returned
ParseTokens ==
  /\ pc = "tokenizing" /\ chars = <<>>
  /\ out' = parseTokens(tk.tokens)
  /\ pc' = "done"
  /\ UNCHANGED <<op, inA, inB, str, chars, tk>>
  /\ UNCHANGED <<treeVars, ldVars>>

NextRoundTrip == Serialize \/ StartParse \/ TokenizerStep \/ ParseTokens
NextParse == StartParse \/ TokenizerStep \/ ParseTokens
NextRange == BuildRange \/ StartParse \/ TokenizerStep \/ ParseTokens

SpecRoundTrip == InitRoundTrip /\ [][NextRoundTrip]_vars
SpecParse == InitParse /\ [][NextParse]_vars
SpecRange == InitRange /\ [][NextRange]_vars

-----------------------------------------------------------------------------
(* Claims about the text pipeline. *)

\* A Part of the data model: a numeric index, an offset only on the last Part
\* of its Path and on an odd index, at most one of id and text, a non-empty id
ValidPart(p, isLast) ==
  /\ p.index # NaN
  /\ IsSome(p.offset) => (isLast /\ p.index % 2 = 1)
  /\ ~(IsSome(p.id) /\ IsSome(p.text))
  /\ IsSome(p.id) => p.id[1] # <<>>
  /\ IsSome(p.side) => p.side[1] # <<>>

ValidPath(ps) ==
  /\ ps # <<>>
  /\ \A k \in 1..Len(ps) :
       /\ ps[k] # <<>>
       /\ \A j \in 1..Len(ps[k]) : ValidPart(ps[k][j], j = Len(ps[k]))

RoundTripDone == pc = "done" /\ op = "roundtrip"

\* C1: round trip.  For every valid path P, parse(toString(P)) is a point
\* location equal to P: the same segments, the same Parts in the same order,
\* the same value of every field.
C1_RoundTrip ==
  (RoundTripDone /\ ValidPath(inA)) => (out.kind = "path" /\ out.path = inA)

\* The number of '!' tokens of a token stream, and the tokens between them
Indirs(toks) == findTokens(toks, <<"!">>)
Commas(toks) == findTokens(toks, <<",">>)
SegmentTokens(toks, k) ==
  LET is == <<0>> \o Indirs(toks) \o <<Len(toks) + 1>>
  IN SubSeq(toks, is[k] + 1, is[k + 1] - 1)

ParseDone == pc = "done" /\ op = "parse"

\* C2: parse of a point CFI (no ',' token) with n '!' tokens returns exactly
\* n+1 Paths, the k-th built only from the tokens between the (k-1)-th and the
\* k-th '!'; the example of the specification parses into two segments whose
\* final Part has index 3 and offset 10.
C2_IndirSplit ==
  (ParseDone /\ Commas(tk.tokens) = <<>>) =>
    /\ out.kind = "path"
    /\ Len(out.path) = Len(Indirs(tk.tokens)) + 1
    /\ \A k \in 1..Len(out.path) :
         LET r == parser(SegmentTokens(tk.tokens, k))
         IN ~r.threw /\ out.path[k] = r.parts
    /\ str = ExampleCFI =>
         /\ Len(out.path) = 2
         /\ Last(Last(out.path)).index = 3
         /\ Last(Last(out.path)).offset = Some(10)

\* the tokens of one of the three sub-streams of a range
SubStreamTokens(toks, k) ==
  LET is == <<0>> \o Commas(toks) \o <<Len(toks) + 1>>
  IN SubSeq(toks, is[k] + 1, is[k + 1] - 1)

\* C3: parse of a CFI with exactly two ',' tokens returns {parent, start, end},
\* each the Indirect Path parsed from its own sub-stream of tokens (before the
\* first ',', between the two, after the second) and from nothing else.
C3_RangeSplit ==
  (ParseDone /\ Len(Commas(tk.tokens)) = 2) =>
    /\ out.kind = "range"
    /\ LET sub(k) == parserIndir(SubStreamTokens(tk.tokens, k))
       IN /\ \A k \in 1..3 : ~sub(k).threw
          /\ out.parent = sub(1).paths
          /\ out.start = sub(2).paths
          /\ out.end = sub(3).paths

\* C4: parse never raises, whatever the input string.
C4_ParseNeverRaises == pc = "done" => out.kind # "threw"

RangeDone == pc = "done" /\ op = "range"

\* C5: range symmetry.  For Indirect Paths A and B with the same outer
\* segments, the range built by buildRange(A, B) collapses to A at its start
\* and to B at its end.
C5_RangeSymmetry ==
  RangeDone =>
    /\ out.kind = "range"
    /\ collapse(out, FALSE) = inA
    /\ collapse(out, TRUE) = inB

-----------------------------------------------------------------------------
(* The document tree the host supplies.  A node is a record [type, id, len,
   kids, filt]: nodeType (1 element, 3 text, 4 CDATA, 8 comment, 9 document),
   the id attribute, the length of nodeValue, the child nodes, and what the
   caller's filter answers for the node.  A node is referred to by its
   position: the sequence of child positions from the document. *)

RECURSIVE NodeAt(_, _)
NodeAt(d, ref) == IF ref = <<>> THEN d ELSE NodeAt(d.kids[Head(ref)], Tail(ref))

childNodes(d, ref) == [i \in 1..Len(NodeAt(d, ref).kids) |-> Append(ref, i)]

\* node.parentNode: null for the document
parentNode(ref) == IF ref = <<>> THEN None ELSE Some(Front(ref))

\* doc.documentElement: the model's documents hold the root element alone
documentElement == <<1>>

isTextNode(d, ref) == NodeAt(d, ref).type \in {3, 4}
isElementNode(d, ref) == NodeAt(d, ref).type = 1

RECURSIVE DocOrder(_, _)
DocOrder(d, ref) ==
  <<ref>> \o Flatten([i \in 1..Len(NodeAt(d, ref).kids) |-> DocOrder(d, Append(ref, i))])

\* node.ownerDocument.getElementById(id): the first element, in document
\* order, with that id; null if there is none
getElementById(d, id) ==
  LET hit(r) == NodeAt(d, r).type = 1 /\ NodeAt(d, r).id = id
      hits == SelectSeq(DocOrder(d, <<>>), hit)
  IN IF hits = <<>> THEN None ELSE Some(hits[1])

-----------------------------------------------------------------------------
(* Tree indexer. *)

\* getChildNodes with a rejected child treated like a skipped one
RECURSIVE getChildNodesRejectAsSkip(_, _, _)
getChildNodesRejectAsSkip(d, ref, useF) ==
  LET keep(r) == NodeAt(d, r).type \in {1, 3, 4}
      nodes == SelectSeq(childNodes(d, ref), keep)
  IN IF ~useF THEN nodes
     ELSE Flatten([i \in 1..Len(nodes) |->
            IF NodeAt(d, nodes[i]).filt \in {"reject", "skip"}
            THEN getChildNodesRejectAsSkip(d, nodes[i], useF)
            ELSE <<nodes[i]>>])

\* getChildNodes(node, filter): element and character-data children; with a
\* filter, a rejected child is dropped and a skipped child is replaced by its
\* own filtered children
RECURSIVE getChildNodes(_, _, _)
getChildNodes(d, ref, useF) ==
  LET keep(r) == isTextNode(d, r) \/ isElementNode(d, r)
      nodes == SelectSeq(childNodes(d, ref), keep)
  IN IF ~useF THEN nodes
     ELSE Flatten([i \in 1..Len(nodes) |->
            IF NodeAt(d, nodes[i]).filt = "reject" THEN <<>>
            ELSE IF NodeAt(d, nodes[i]).filt = "skip" THEN getChildNodes(d, nodes[i], useF)
            ELSE <<nodes[i]>>])

SlotNode(r) == [k |-> "node", n |-> r]
SlotChunk(rs) == [k |-> "chunk", ns |-> rs]
SlotNull == [k |-> "null"]
SlotMark(name) == [k |-> "mark", name |-> name]

SlotIsElement(d, sl) == sl.k = "node" /\ isElementNode(d, sl.n)
SlotIsText(d, sl) == sl.k = "node" /\ isTextNode(d, sl.n)

\* one call of the reducer of indexChildNodes (lines 219-242)
indexReduce(d, arr, node) ==
  IF arr = <<>> \/ Last(arr).k = "null" THEN Append(arr, SlotNode(node))
  ELSE IF isTextNode(d, node) THEN
    IF Last(arr).k = "chunk" THEN
      [arr EXCEPT ![Len(arr)] = SlotChunk(Append(Last(arr).ns, node))]
    ELSE IF SlotIsText(d, Last(arr)) THEN
      [arr EXCEPT ![Len(arr)] = SlotChunk(<<Last(arr).n, node>>)]
    ELSE Append(arr, SlotNode(node))
  ELSE IF SlotIsElement(d, Last(arr)) THEN arr \o <<SlotNull, SlotNode(node)>>
  ELSE Append(arr, SlotNode(node))

RECURSIVE indexReduceAll(_, _, _)
indexReduceAll(d, arr, nodes) ==
  IF nodes = <<>> THEN arr
  ELSE indexReduceAll(d, indexReduce(d, arr, Head(nodes)), Tail(nodes))

\* indexChildNodes without the `first` marker in front of a leading element
indexChildNodesNoFirst(d, optRef, useF) ==
  IF optRef = None THEN [threw |-> TRUE, slots |-> <<>>]
  ELSE
    LET nodes == indexReduceAll(d, <<>>, getChildNodes(d, optRef[1], useF))
    IN IF nodes = <<>> THEN [threw |-> TRUE, slots |-> <<>>]
       ELSE [threw |-> FALSE,
             slots |-> <<SlotMark("before")>> \o nodes
                       \o (IF SlotIsElement(d, Last(nodes)) THEN <<SlotMark("last")>> ELSE <<>>)
                       \o <<SlotMark("after")>>]

\* indexChildNodes(node, filter): [threw, slots].  `node` is an optional node
\* reference: null.childNodes is a TypeError, and so is isElementNode(nodes[0])
\* when the filtered child list is empty ({ nodeType } of undefined).
indexChildNodes(d, optRef, useF) ==
  IF optRef = None THEN [threw |-> TRUE, slots |-> <<>>]
  ELSE
    LET nodes == indexReduceAll(d, <<>>, getChildNodes(d, optRef[1], useF))
    IN IF nodes = <<>> THEN [threw |-> TRUE, slots |-> <<>>]
       ELSE [threw |-> FALSE,
             slots |-> <<SlotMark("before")>>
                       \o (IF SlotIsElement(d, nodes[1]) THEN <<SlotMark("first")>> ELSE <<>>)
                       \o nodes
                       \o (IF SlotIsElement(d, Last(nodes)) THEN <<SlotMark("last")>> ELSE <<>>)
                       \o <<SlotMark("after")>>]

\* arr[index] of a JavaScript array: undefined outside it (and for NaN)
SlotAt(slots, i) ==
  IF i >= 0 /\ i < Len(slots) THEN slots[i + 1] ELSE SlotNull

-----------------------------------------------------------------------------
(* Path -> node. *)

ResNull == [kind |-> "null"]
ResUndefined == [kind |-> "undefined"]
ResThrew == [kind |-> "threw"]
ResObj(n, o, side) == [kind |-> "obj", node |-> n, offset |-> o, side |-> side]

\* node.firstChild ?? node, node.lastChild ?? node: over all child nodes
firstChildOr(d, r) == IF NodeAt(d, r).kids = <<>> THEN r ELSE Append(r, 1)
lastChildOr(d, r) == IF NodeAt(d, r).kids = <<>> THEN r ELSE Append(r, Len(NodeAt(d, r).kids))

\* the chunk walk (lines 276-281): undefined when the loop ends
RECURSIVE chunkWalk(_, _, _, _)
chunkWalk(d, ns, offset, sum) ==
  IF ns = <<>> THEN ResUndefined
  ELSE LET length == NodeAt(d, Head(ns)).len
       IN IF sum + length >= offset THEN ResObj(Some(Head(ns)), Some(offset - sum), "")
          ELSE chunkWalk(d, Tail(ns), offset, sum + length)

\* lines 270-281, after the loop: `cur` is the slot the walk ended on
partsToNodeTail(d, cur, offset) ==
  IF ~(IsSome(offset) /\ IntTruthy(offset[1])) THEN ResNull
  ELSE IF cur.k # "chunk" THEN
    ResObj(IF cur.k = "node" THEN Some(cur.n) ELSE None, offset, "")
  ELSE chunkWalk(d, cur.ns, offset[1], 0)

\* the loop of partsToNode (lines 261-269) from Part i on; `cur` is `node`:
\* a node, a chunk (an array) or null/undefined.  indexChildNodes of an array
\* is a TypeError (Array.from(undefined)).
RECURSIVE partsToNodeLoop(_, _, _, _, _)
partsToNodeLoop(d, cur, parts, i, useF) ==
  IF i > Len(parts) THEN partsToNodeTail(d, cur, Last(parts).offset)
  ELSE IF cur.k = "chunk" THEN ResThrew
  ELSE IF cur.k = "null" THEN partsToNodeLoop(d, SlotNull, parts, i + 1, useF)
  ELSE
    LET ix == indexChildNodes(d, Some(cur.n), useF)
        newNode == SlotAt(ix.slots, parts[i].index)
    IN IF ix.threw THEN ResThrew
       ELSE IF newNode.k = "mark" THEN
         IF newNode.name = "first" THEN ResObj(Some(firstChildOr(d, cur.n)), None, "")
         ELSE IF newNode.name = "last" THEN ResObj(Some(lastChildOr(d, cur.n)), None, "")
         ELSE ResObj(Some(cur.n), None, newNode.name)
       ELSE partsToNodeLoop(d, newNode, parts, i + 1, useF)

\* partsToNode(node, parts, filter); parts[parts.length - 1]! of an empty
\* Path is undefined, and destructuring it is a TypeError
partsToNode(d, node, parts, useF) ==
  IF parts = <<>> THEN ResThrew
  ELSE
    LET id == Last(parts).id
        el == IF IsSome(id) /\ id[1] # <<>> THEN getElementById(d, id[1]) ELSE None
    IN IF IsSome(el) THEN ResObj(el, Some(0), "")
       ELSE partsToNodeLoop(d, SlotNode(node), parts, 1, useF)

-----------------------------------------------------------------------------
(* Node -> path. *)

RECURSIVE findIndexFrom(_, _, _)
findIndexFrom(slots, node, i) ==
  IF i > Len(slots) THEN 0 - 1
  ELSE IF (slots[i].k = "node" /\ slots[i].n = node)
          \/ (slots[i].k = "chunk" /\ \E j \in 1..Len(slots[i].ns) : slots[i].ns[j] = node)
       THEN i - 1
  ELSE findIndexFrom(slots, node, i + 1)

\* lines 337-348: the offset as if the text nodes of the chunk were merged
RECURSIVE chunkOffset(_, _, _, _, _)
chunkOffset(d, ns, node, offset, sum) ==
  IF ns = <<>> THEN sum
  ELSE IF Head(ns) = node THEN sum + OptGet(offset, 0)
  ELSE chunkOffset(d, Tail(ns), node, offset, sum + NodeAt(d, Head(ns)).len)

IPart(id, index, offset) == [NewPart(index) EXCEPT !.id = id, !.offset = offset]

\* node.id: the id attribute of an element ('' without one), undefined otherwise
nodeId(d, ref) == IF NodeAt(d, ref).type = 1 THEN Some(NodeAt(d, ref).id) ELSE None

notIgnored(p) == p.index # 0 - 1

\* nodeToParts(node, offset, filter): [threw, parts]
RECURSIVE nodeToParts(_, _, _, _)
nodeToParts(d, node, offset, useF) ==
  LET parent == parentNode(node)
      ix == indexChildNodes(d, parent, useF)
      index == findIndexFrom(ix.slots, node, 1)
      chunk == SlotAt(ix.slots, index)
      off == IF chunk.k = "chunk" THEN Some(chunkOffset(d, chunk.ns, node, offset, 0))
             ELSE offset
      part == IPart(nodeId(d, node), index, off)
  IN IF ix.threw THEN [threw |-> TRUE, parts |-> <<>>]
     ELSE IF parent[1] # documentElement THEN
       LET up == nodeToParts(d, parent[1], None, useF)
       IN IF up.threw THEN up
          ELSE [threw |-> FALSE, parts |-> SelectSeq(Append(up.parts, part), notIgnored)]
     ELSE [threw |-> FALSE, parts |-> SelectSeq(<<part>>, notIgnored)]

-----------------------------------------------------------------------------
(* toRange, fromRange, fromElements. *)

\* the length of a node as a boundary point's container
nodeLength(d, r) == IF NodeAt(d, r).type \in {3, 4, 8} THEN NodeAt(d, r).len
                    ELSE Len(NodeAt(d, r).kids)

PointThrew == [threw |-> TRUE]
Point(c, o) == [threw |-> FALSE, container |-> c, offset |-> o]

\* one endpoint of toRange (lines 379-385 and 387-393).  The host's Range
\* throws for a node that is undefined, for an offset beyond the node's
\* length, and for setStartBefore/After of a node without a parent.
rangePoint(d, res) ==
  IF res.kind # "obj" THEN PointThrew
  ELSE IF res.node = None THEN PointThrew
  ELSE IF res.side = "before" \/ res.side = "after" THEN
    IF res.node[1] = <<>> THEN PointThrew
    ELSE Point(Front(res.node[1]),
               IF res.side = "before" THEN Last(res.node[1]) - 1 ELSE Last(res.node[1]))
  ELSE IF OptGet(res.offset, 0) = NaN \/ OptGet(res.offset, 0) > nodeLength(d, res.node[1])
    THEN PointThrew
  ELSE Point(res.node[1], OptGet(res.offset, 0))

\* toRange(doc, parts, filter): [threw, start, end]; only the first Path of the
\* collapsed Indirect Path is resolved
toRange(d, parsed, useF) ==
  LET startParts == collapse(parsed, FALSE)
      endParts == collapse(parsed, TRUE)
      start == rangePoint(d, partsToNode(d, documentElement, startParts[1], useF))
      end == rangePoint(d, partsToNode(d, documentElement, endParts[1], useF))
  IN IF start.threw \/ end.threw
     THEN [threw |-> TRUE]
     ELSE [threw |-> FALSE, start |-> start, end |-> end]

StrThrew == [threw |-> TRUE, s |-> <<>>]
StrOk(x) == [threw |-> FALSE, s |-> x]

\* fromRange(range, filter): [threw, s]
fromRange(d, range, useF) ==
  LET start == nodeToParts(d, range.start.container, Some(range.start.offset), useF)
      end == nodeToParts(d, range.end.container, Some(range.end.offset), useF)
  IN IF start.threw THEN StrThrew
     ELSE IF range.start = range.end THEN StrOk(toStringPaths(<<start.parts>>))
     ELSE IF end.threw THEN StrThrew
     ELSE StrOk(buildRange(<<start.parts>>, <<end.parts>>))

\* the loop of fromElements (lines 403-406) from slot i on
RECURSIVE fromElementsLoop(_, _, _, _, _, _)
fromElementsLoop(d, slots, i, parts, elements, results) ==
  IF i > Len(slots) THEN results
  ELSE
    LET hit == Len(results) < Len(elements) /\ slots[i].k = "node"
               /\ slots[i].n = elements[Len(results) + 1]
        el == elements[Len(results) + 1]
    IN fromElementsLoop(d, slots, i + 1, parts, elements,
         IF hit
         THEN Append(results,
                toStringPaths(<<Append(parts, IPart(nodeId(d, el), i - 1, None))>>))
         ELSE results)

\* fromElements(elements): [threw, list]
fromElements(d, elements) ==
  IF elements = <<>> THEN [threw |-> FALSE, list |-> <<>>]
  ELSE
    LET parent == parentNode(elements[1])
        parts == nodeToParts(d, parent[1], None, FALSE)
        ix == indexChildNodes(d, parent, FALSE)
    IN IF parts.threw \/ ix.threw THEN [threw |-> TRUE, list |-> <<>>]
       ELSE [threw |-> FALSE,
             list |-> fromElementsLoop(d, ix.slots, 1, parts.parts, elements, <<>>)]

-----------------------------------------------------------------------------
(* Inputs of the tree pipeline. *)

Node(type, id, len, kids, filt) ==
  [type |-> type, id |-> id, len |-> len, kids |-> kids, filt |-> filt]
Text(n) == Node(3, <<>>, n, <<>>, "accept")
CData(n) == Node(4, <<>>, n, <<>>, "accept")
Comment == Node(8, <<>>, 1, <<>>, "accept")
Elem(id, kids) == Node(1, id, 0, kids, "accept")
Filtered(n, f) == [n EXCEPT !.filt = f]
Document(root) == Node(9, <<>>, 0, <<root>>, "accept")

\* what a child of the root element may be
ChildKinds ==
  { Text(1), Text(2), CData(1), Comment,
    Elem(<<>>, <<>>),
    Elem(<<"a">>, <<Text(2), Text(1)>>),
    Elem(<<>>, <<Elem(<<"b">>, <<>>), Elem(<<>>, <<Text(1)>>)>>),
    Filtered(Elem(<<>>, <<Text(1), Elem(<<>>, <<>>)>>), "skip"),
    Filtered(Elem(<<>>, <<Text(1)>>), "reject") }

Docs == {Document(Elem(<<>>, kids)) : kids \in SeqsUpTo(ChildKinds, MaxKids)}

TreeOffsets == {None} \cup {Some(o) : o \in 0..MaxTreeOffset}
TreePaths ==
  {<<PlainPart(i, o)>> : i \in 0..MaxSlot, o \in TreeOffsets}
  \cup {<<PlainPart(i, None), PlainPart(j, o)>> :
          i \in 0..MaxSlot, j \in 0..MaxSlot, o \in TreeOffsets}
  \cup {<<[PlainPart(i, None) EXCEPT !.id = Some(id)]>> :
          i \in 0..MaxSlot, id \in {<<"a">>, <<"b">>, <<"z">>}}
  \cup {<<>>}

\* the element children of a node, in document order
ElementChildren(d, ref) ==
  LET el(r) == isElementNode(d, r) IN SelectSeq(childNodes(d, ref), el)

\* the elements of a document that have element children
RECURSIVE ElementRefs(_, _)
ElementRefs(d, ref) ==
  (IF NodeAt(d, ref).type = 1 THEN {ref} ELSE {})
  \cup UNION {ElementRefs(d, Append(ref, i)) : i \in 1..Len(NodeAt(d, ref).kids)}

\* the subsequences of a sequence, in order
RECURSIVE SubSeqs(_)
SubSeqs(q) ==
  IF q = <<>> THEN {<<>>}
  ELSE SubSeqs(Tail(q)) \cup {<<Head(q)>> \o t : t \in SubSeqs(Tail(q))}

-----------------------------------------------------------------------------
(* The tree pipeline as a state machine: a Path is resolved (partsToNode),
   toRange builds the Range of the point location, fromRange derives the CFI
   of that Range; and fromElements derives the CFIs of sibling elements, against
   fromRange of the point Range at each. *)

NoText ==
  /\ op = "none" /\ inA = <<>> /\ inB = <<>> /\ str = <<>> /\ chars = <<>>
  /\ tk = TkInit /\ out = <<>> /\ pc = "off"

InitResolve ==
  /\ doc \in Docs /\ useFilter \in BOOLEAN
  /\ tparts \in TreePaths /\ telems = <<>>
  /\ tres = <<>> /\ trange = <<>> /\ tder = <<>> /\ tpc = "path"
  /\ NoText /\ NoLoader

InitBatch ==
  /\ doc \in Docs /\ useFilter \in BOOLEAN
  /\ tparts = <<>>
  /\ \E parent \in ElementRefs(doc, <<>>) :
       telems \in SubSeqs(ElementChildren(doc, parent))
  /\ tres = <<>> /\ trange = <<>> /\ tder = <<>> /\ tpc = "elements"
  /\ NoText /\ NoLoader

\* partsToNode(root, parts, filter)
Resolve ==
  /\ tpc = "path"
  /\ tres' = partsToNode(doc, documentElement, tparts, useFilter)
  /\ tpc' = "resolved"
  /\ UNCHANGED <<doc, useFilter, tparts, telems, trange, tder>>
  /\ UNCHANGED <<cfiVars, ldVars>>

\* toRange(doc, [parts], filter)
ToRange ==
  /\ tpc = "resolved"
  /\ trange' = toRange(doc, ParsedPath(<<tparts>>), useFilter)
  /\ tpc' = "ranged"
  /\ UNCHANGED <<doc, useFilter, tparts, telems, tres, tder>>
  /\ UNCHANGED <<cfiVars, ldVars>>

\* fromRange(range, filter) of the Range toRange returned; tder keeps the
\* Parts nodeToParts derived for its start and the string
FromRange ==
  /\ tpc = "ranged" /\ ~trange.threw
  /\ tder' = [parts |-> nodeToParts(doc, trange.start.container,
                                    Some(trange.start.offset), useFilter),
              cfi |-> fromRange(doc, trange, useFilter)]
  /\ tpc' = "derived"
  /\ UNCHANGED <<doc, useFilter, tparts, telems, tres, trange>>
  /\ UNCHANGED <<cfiVars, ldVars>>

\* fromElements(elements)
FromElements ==
  /\ tpc = "elements"
  /\ tres' = fromElements(doc, telems)
  /\ tpc' = "batched"
  /\ UNCHANGED <<doc, useFilter, tparts, telems, trange, tder>>
  /\ UNCHANGED <<cfiVars, ldVars>>

\* the Range setStart(el, 0) collapsed at an element
pointRangeAt(el) == [threw |-> FALSE, start |-> Point(el, 0), end |-> Point(el, 0)]

\* fromRange of the point Range at each element
FromRangeEach ==
  /\ tpc = "batched"
  /\ tder' = [i \in 1..Len(telems) |-> fromRange(doc, pointRangeAt(telems[i]), useFilter)]
  /\ tpc' = "compared"
  /\ UNCHANGED <<doc, useFilter, tparts, telems, tres, trange>>
  /\ UNCHANGED <<cfiVars, ldVars>>

NextResolve == Resolve \/ ToRange \/ FromRange
NextBatch == FromElements \/ FromRangeEach

SpecResolve == InitResolve /\ [][NextResolve]_vars
SpecBatch == InitBatch /\ [][NextBatch]_vars

-----------------------------------------------------------------------------
(* Claims about escaping. *)

\* the single Part of a one-Part input, and the Part of the last Path that
\* parse returned for it
OnePart(ps) == Len(ps) = 1 /\ Len(ps[1]) = 1
InPart == inA[1][1]
OutHasPart == out.kind = "path" /\ out.path # <<>> /\ Len(Last(out.path)) = 1
OutPart == Last(out.path)[1]

\* the Part carries id = s, or text = [s] and no id, for a non-empty s
IdCase(p) == IsSome(p.id) /\ p.id[1] # <<>> /\ p.text = None
TextCase(p) == p.id = None /\ IsSome(p.text) /\ Len(p.text[1]) = 1 /\ p.text[1][1] # <<>>

\* C6: escaping safety.  A Part with id = s, or with text = [s], serialized
\* and parsed back has s in the same field of the Part of the last Path
\* returned: id stays id, text stays the single text assertion s.
C6_EscapeSameField ==
  (RoundTripDone /\ OnePart(inA)) =>
    /\ IdCase(InPart) => (OutHasPart /\ OutPart.id = InPart.id /\ OutPart.text = None)
    /\ TextCase(InPart) => (OutHasPart /\ OutPart.text = InPart.text /\ OutPart.id = None)

-----------------------------------------------------------------------------
(* Claims about the tree pipeline. *)

\* The slot a Path selects, following each index through the slot list of the
\* node reached so far.  st is "ok" (slot: the slot selected), "miss" (an
\* index outside the slot list; a node without children to index has an empty
\* one), "mark" (a virtual marker was selected) or "stuck" (the Path goes on
\* below a chunk or an empty placeholder).
RECURSIVE Walk(_, _, _, _, _)
Walk(d, cur, parts, i, useF) ==
  IF i > Len(parts) THEN [st |-> "ok", slot |-> cur]
  ELSE IF cur.k # "node" THEN [st |-> "stuck", slot |-> cur]
  ELSE
    LET ix == indexChildNodes(d, Some(cur.n), useF)
        slots == IF ix.threw THEN <<>> ELSE ix.slots
        idx == parts[i].index
    IN IF idx < 0 \/ idx >= Len(slots) THEN [st |-> "miss", slot |-> cur]
       ELSE IF slots[idx + 1].k = "mark" THEN [st |-> "mark", slot |-> cur]
       ELSE Walk(d, slots[idx + 1], parts, i + 1, useF)

Selected == Walk(doc, SlotNode(documentElement), tparts, 1, useFilter)

NoIdAssertion == \A i \in 1..Len(tparts) : tparts[i].id = None

RECURSIVE SumLen(_, _)
SumLen(d, ns) == IF ns = <<>> THEN 0 ELSE NodeAt(d, Head(ns)).len + SumLen(d, Tail(ns))

InSeq(x, q) == \E j \in 1..Len(q) : q[j] = x

\* the terminal Part selects a merged chunk of adjacent text siblings and
\* carries an offset o with 0 <= o <= L
ChunkCase ==
  /\ tparts # <<>> /\ NoIdAssertion
  /\ Selected.st = "ok" /\ Selected.slot.k = "chunk"
  /\ \A j \in 1..Len(Selected.slot.ns) : Front(Selected.slot.ns[j]) = Front(Selected.slot.ns[1])
  /\ IsSome(Last(tparts).offset)
  /\ Last(tparts).offset[1] <= SumLen(doc, Selected.slot.ns)

\* C7: text-chunk round trip.  Resolving a Path whose terminal Part selects a
\* merged chunk with offset o, 0 <= o <= L, yields a member node and a local
\* offset, and the path derived from them ends in a Part with the same index
\* and offset o.
C7_ChunkRoundTrip ==
  /\ (tpc = "resolved" /\ ChunkCase) =>
       /\ tres.kind = "obj" /\ IsSome(tres.node) /\ IsSome(tres.offset)
       /\ InSeq(tres.node[1], Selected.slot.ns)
       /\ tres.offset[1] <= NodeAt(doc, tres.node[1]).len
       /\ LET back == nodeToParts(doc, tres.node[1], tres.offset, useFilter)
          IN /\ ~back.threw /\ back.parts # <<>>
             /\ Last(back.parts).index = Last(tparts).index
             /\ Last(back.parts).offset = Last(tparts).offset
  /\ (tpc = "ranged" /\ ChunkCase) => ~trange.threw
  /\ (tpc = "derived" /\ ChunkCase) =>
       /\ ~tder.parts.threw /\ tder.parts.parts # <<>>
       /\ Last(tder.parts.parts).index = Last(tparts).index
       /\ Last(tder.parts.parts).offset = Last(tparts).offset

\* a Part's index is outside the slot list of the node reached, or the
\* terminal offset exceeds the length of the selected text
IndexMiss == tparts # <<>> /\ NoIdAssertion /\ Selected.st = "miss"
OffsetMiss ==
  /\ tparts # <<>> /\ NoIdAssertion /\ Selected.st = "ok"
  /\ IsSome(Last(tparts).offset)
  /\ \/ /\ Selected.slot.k = "node" /\ isTextNode(doc, Selected.slot.n)
        /\ Last(tparts).offset[1] > NodeAt(doc, Selected.slot.n).len
     \/ /\ Selected.slot.k = "chunk"
        /\ Last(tparts).offset[1] > SumLen(doc, Selected.slot.ns)

\* C8: a resolution miss is an absent result: partsToNode returns null or
\* undefined; it neither throws nor returns a node.
C8_MissIsAbsent ==
  (tpc = "resolved" /\ (IndexMiss \/ OffsetMiss)) => tres.kind \in {"null", "undefined"}

\* every index selects an element or a text node, no id assertion, and the
\* terminal Part has no offset or offset 0
PlainHit ==
  /\ tparts # <<>> /\ NoIdAssertion
  /\ Selected.st = "ok" /\ Selected.slot.k = "node"
  /\ Last(tparts).offset \in {None, Some(0)}

\* C9: such a Path resolves to the selected node without an offset
\* refinement, and toRange sets the endpoint on that node at offset 0.
C9_PlainResolves ==
  /\ (tpc = "resolved" /\ PlainHit) =>
       /\ tres.kind = "obj" /\ tres.node = Some(Selected.slot.n)
       /\ tres.offset \in {None, Some(0)} /\ tres.side = ""
  /\ (tpc = "ranged" /\ PlainHit) =>
       /\ ~trange.threw
       /\ trange.start = Point(Selected.slot.n, 0)
       /\ trange.end = Point(Selected.slot.n, 0)

\* C10: batch derivation equivalence.  For sibling elements E in document
\* order, fromElements(E) has the length of E and its i-th entry is fromRange
\* of the point Range at E[i].
C10_BatchEquivalence ==
  (tpc = "compared" /\ ~useFilter) =>
    /\ ~tres.threw
    /\ Len(tres.list) = Len(telems)
    /\ \A i \in 1..Len(telems) : ~tder[i].threw /\ tres.list[i] = tder[i].s

-----------------------------------------------------------------------------
(* The tree indexer as a state machine: getChildNodes enumerates the children
   of a node, indexChildNodes lays them out in slots. *)

\* what a child may be when the filter decides about text nodes and about
\* nested elements as well
IndexKinds ==
  { Text(1), CData(1), Comment,
    Elem(<<>>, <<>>),
    Elem(<<>>, <<Text(1), Filtered(Elem(<<>>, <<Elem(<<>>, <<>>)>>), "skip")>>),
    Filtered(Text(1), "reject"),
    Filtered(Text(1), "skip"),
    Filtered(Elem(<<>>, <<Elem(<<>>, <<>>)>>), "reject"),
    Filtered(Elem(<<>>, <<Text(1), Elem(<<>>, <<>>), Text(1)>>), "skip"),
    Filtered(Elem(<<>>, <<Filtered(Elem(<<>>, <<Elem(<<>>, <<>>), Comment>>), "skip"),
                          Filtered(Elem(<<>>, <<Text(1)>>), "reject"),
                          Text(1)>>), "skip") }

IndexDocs == {Document(Elem(<<>>, kids)) : kids \in SeqsUpTo(IndexKinds, MaxIndexKids)}

InitIndex ==
  /\ doc \in IndexDocs /\ useFilter \in BOOLEAN
  /\ tparts = <<>>
  /\ \E node \in ElementRefs(doc, <<>>) : telems = <<node>>
  /\ tres = <<>> /\ trange = <<>> /\ tder = <<>> /\ tpc = "node"
  /\ NoText /\ NoLoader

\* getChildNodes(node, filter)
GetChildNodes ==
  /\ tpc = "node"
  /\ tres' = getChildNodes(doc, telems[1], useFilter)
  /\ tpc' = "children"
  /\ UNCHANGED <<doc, useFilter, tparts, telems, trange, tder>>
  /\ UNCHANGED <<cfiVars, ldVars>>

\* indexChildNodes(node, filter)
IndexChildNodes ==
  /\ tpc = "children"
  /\ tder' = indexChildNodes(doc, Some(telems[1]), useFilter)
  /\ tpc' = "indexed"
  /\ UNCHANGED <<doc, useFilter, tparts, telems, tres, trange>>
  /\ UNCHANGED <<cfiVars, ldVars>>

NextIndex == GetChildNodes \/ IndexChildNodes

SpecIndex == InitIndex /\ [][NextIndex]_vars

-----------------------------------------------------------------------------
(* Claims about the tree indexer. *)

\* C11: slot-list layout.  For a node with a non-empty filtered child list,
\* indexChildNodes returns a list with `before` at index 0 and `after` at the
\* last index, every element at an even index >= 2, and every text node,
\* chunk, `first`/`last` marker and empty placeholder at an odd index.
C11_SlotLayout ==
  (tpc = "indexed" /\ tres # <<>>) =>
    /\ ~tder.threw
    /\ tder.slots[1] = SlotMark("before")
    /\ Last(tder.slots) = SlotMark("after")
    /\ \A i \in 1..Len(tder.slots) :
         LET sl == tder.slots[i]
             index == i - 1
         IN /\ SlotIsElement(doc, sl) => (index % 2 = 0 /\ index >= 2)
            /\ (SlotIsText(doc, sl) \/ sl.k \in {"chunk", "null"}
                \/ sl \in {SlotMark("first"), SlotMark("last")}) => index % 2 = 1
            /\ sl = SlotMark("before") => index = 0
            /\ sl = SlotMark("after") => i = Len(tder.slots)

\* a list that starts with an element and holds a merged chunk has been laid
\* out under a filter: the `first` marker, the element and the chunk have slots
C11_Witness ==
  /\ tpc = "indexed" /\ ~tder.threw /\ useFilter
  /\ tder.slots[2] = SlotMark("first")
  /\ \E i \in 1..Len(tder.slots) : tder.slots[i].k = "chunk"

\* the nodes below `top` on the way down to ref, ref excluded: ref's proper
\* ancestors inside the enumeration
AncestorsBelow(top, ref) == {SubSeq(ref, 1, n) : n \in (Len(top) + 1)..(Len(ref) - 1)}

IsBelow(top, ref) == Len(ref) > Len(top) /\ SubSeq(ref, 1, Len(top)) = top

Kept(d, r) == NodeAt(d, r).type \in {1, 3, 4}

\* what the filter semantics asks for: the accepted nodes reached through
\* skipped ancestors only, in document order
Enumerated(d, top, r) ==
  /\ IsBelow(top, r) /\ Kept(d, r) /\ NodeAt(d, r).filt = "accept"
  /\ \A a \in AncestorsBelow(top, r) : Kept(d, a) /\ NodeAt(d, a).filt = "skip"

ExpectedChildren(d, top) ==
  LET want(r) == Enumerated(d, top, r) IN SelectSeq(DocOrder(d, top), want)

\* C15: filter semantics of the child enumeration.  With a filter, a rejected
\* child contributes neither itself nor a descendant, a skipped child is
\* replaced in place by its own filtered children, recursively, an accepted
\* child appears itself, and document order is preserved: the result is the
\* document-order list of the accepted nodes whose ancestors below the node
\* are all skipped.
C15_FilterSemantics ==
  (tpc \in {"children", "indexed"} /\ useFilter) =>
    tres = ExpectedChildren(doc, telems[1])

\* a rejected subtree and a skipped element nested in a skipped element have
\* been enumerated
C15_Witness ==
  /\ tpc = "children" /\ useFilter
  /\ \E r \in {telems[1] \o <<i>> : i \in 1..Len(NodeAt(doc, telems[1]).kids)} :
       /\ NodeAt(doc, r).filt = "skip" /\ NodeAt(doc, r).kids # <<>>
       /\ NodeAt(doc, r \o <<1>>).filt = "skip"
       /\ \E j \in 1..Len(tres) : Len(tres[j]) = Len(r) + 2
  /\ \E r \in {telems[1] \o <<i>> : i \in 1..Len(NodeAt(doc, telems[1]).kids)} :
       NodeAt(doc, r).filt = "reject" /\ NodeAt(doc, r).kids # <<>>

-----------------------------------------------------------------------------
(* Claims about assertions. *)

\* the Parts of everything parse returned
OutPaths ==
  IF out.kind = "path" THEN out.path
  ELSE IF out.kind = "range" THEN out.parent \o out.start \o out.end
  ELSE <<>>
OutParts == Flatten(OutPaths)

\* C12: in every Part produced by parse at most one of id and text is
\* populated: a bracket that yields an id never also yields text entries on
\* the same Part.
C12_IdOrText ==
  ParseDone => \A i \in 1..Len(OutParts) : ~(IsSome(OutParts[i].id) /\ IsSome(OutParts[i].text))

-----------------------------------------------------------------------------
(* Claims about the tokenizer's escape. *)

\* C16: the escape is one-shot.  In every tokenizer state, when the character
\* examined is the one that follows an unescaped `^` (the escape flag is set),
\* the flag is clear again once that character has been examined, so the
\* character after it (there is one: chars holds it and the end marker) is not
\* treated as escaped.
C16_EscapeOneShot ==
  [][(pc = "tokenizing" /\ Len(chars) >= 3 /\ tk.escape) => ~tk'.escape]_vars

-----------------------------------------------------------------------------
(* Claims about the serializer's rendering order.  The order in which
   partToString writes the fields of a Part is read off the string by the
   tokenizer: one token per fragment, in the order of the fragments. *)

HasId(p) == IsSome(p.id) /\ p.id[1] # <<>>
HasSide(p) == IsSome(p.side) /\ p.side[1] # <<>>
HasTextBracket(p) == IsSome(p.text) \/ (~HasId(p) /\ HasSide(p))

SideToks(p) == IF HasSide(p) THEN <<Tok(<<";", "s">>, p.side[1])>> ELSE <<>>
StepToks(p) == <<Tok(<<"/">>, p.index)>>
IdToks(p) == IF HasId(p) THEN <<Tok(<<"[">>, p.id[1])>> \o SideToks(p) ELSE <<>>
OffsetToks(p) ==
  IF IsSome(p.offset) /\ p.index % 2 = 1 THEN <<Tok(<<":">>, p.offset[1])>> ELSE <<>>
TemporalToks(p) ==
  IF IsSome(p.temporal) /\ NumTruthy(p.temporal[1]) THEN <<Tok(<<"~">>, p.temporal[1])>> ELSE <<>>
SpatialToks(p) ==
  IF IsSome(p.spatial) THEN [k \in 1..Len(p.spatial[1]) |-> Tok(<<"@">>, p.spatial[1][k])]
  ELSE <<>>
TextToks(p) ==
  IF HasTextBracket(p)
  THEN (IF IsSome(p.text) THEN [k \in 1..Len(p.text[1]) |-> Tok(<<"[">>, p.text[1][k])]
        ELSE <<Tok(<<"[">>, <<>>)>>)
       \o SideToks(p)
  ELSE <<>>

\* C13 as stated: the step, then the assertion bracket (the id bracket if an
\* id is present, otherwise the text/side bracket), then the offset (exactly
\* when an offset is set and the index is odd), then temporal, then spatial;
\* no text bracket after the offset, temporal or spatial fields.
C13_BracketBeforeOffset ==
  (RoundTripDone /\ OnePart(inA)) =>
    tk.tokens = StepToks(InPart)
                \o (IF HasId(InPart) THEN IdToks(InPart) ELSE TextToks(InPart))
                \o OffsetToks(InPart) \o TemporalToks(InPart) \o SpatialToks(InPart)

\* C13 amended: the fragments partToString writes come in the order step, id
\* bracket (with the side parameter), offset (exactly when an offset is set
\* and the index is odd), temporal, spatial, and last the text bracket (the
\* texts and the side parameter), which is written whenever text is set, also
\* next to an id, or side is set without an id.
C13_RenderingOrder ==
  (RoundTripDone /\ OnePart(inA)) =>
    tk.tokens = StepToks(InPart) \o IdToks(InPart)
                \o OffsetToks(InPart) \o TemporalToks(InPart) \o SpatialToks(InPart)
                \o TextToks(InPart)

\* a Part with every field set has been serialized and its fragments read back
C13_Witness ==
  /\ RoundTripDone /\ OnePart(inA)
  /\ HasId(InPart) /\ HasSide(InPart) /\ IsSome(InPart.text)
  /\ OffsetToks(InPart) # <<>> /\ TemporalToks(InPart) # <<>> /\ SpatialToks(InPart) # <<>>
  /\ Len(tk.tokens) >= 8

-----------------------------------------------------------------------------
(* Claims about the divergence rule of buildRange. *)

\* position i is shared: both local Paths have it, with the same index and
\* without an offset (0 is an offset)
SharedAt(lf, lt, i) ==
  /\ i <= Len(lf) /\ i <= Len(lt)
  /\ lf[i].index = lt[i].index
  /\ lf[i].offset = None /\ lt[i].offset = None

\* the length of the longest shared prefix
SharedLen(lf, lt) ==
  CHOOSE k \in 0..Len(lf) :
    /\ \A i \in 1..k : SharedAt(lf, lt, i)
    /\ ~SharedAt(lf, lt, k + 1)

\* the range the divergence rule asks for
ExpectedRange(from, to) ==
  LET lf == Last(from)
      lt == Last(to)
      k == SharedLen(lf, lt)
  IN [parent |-> Front(from) \o <<SubSeq(lf, 1, k)>>,
      start |-> <<SubSeq(lf, k + 1, Len(lf))>>,
      end |-> <<SubSeq(lt, k + 1, Len(lt))>>]

\* C14: divergence rule.  The innermost segment of the parent that buildRange
\* writes is the longest prefix of positions at which the indices agree and
\* neither side carries an offset, an offset of 0 included; the later
\* positions of `from` are the start, those of `to` the end, and the outer
\* segments are those of `from`.
C14_DivergenceRule ==
  (op = "range" /\ pc = "string") => str = toStringRange(ExpectedRange(inA, inB))

-----------------------------------------------------------------------------
(* The resource Loader (class Loader).  JavaScript runs one synchronous
   stretch of code at a time: an action below is the code from one await (or
   from the call) to the next await.  A loadItem call in flight is a stack of
   frames, the loadReplaced calls awaiting the load of a reference and, on
   top, the call that runs next.  unref recurses synchronously; its recursion
   is kept as a stack so that its termination is a property of the model, and
   nothing else runs until that stack is empty. *)

Hrefs == {"a", "b"}
MaxRefs == 2
MaxCalls == 2
MaxDepth == 4

\* allowScript = false
allowScript == FALSE

\* a manifest item: "doc" is a media type that loadItem rewrites (XHTML, HTML,
\* CSS, SVG), refs are the manifest hrefs its text refers to, in order
Items ==
  {[mediaType |-> "blob", refs |-> <<>>], [mediaType |-> "script", refs |-> <<>>]}
    \cup {[mediaType |-> "doc", refs |-> r] : r \in SeqsUpTo(Hrefs, MaxRefs)}

Manifests == [Hrefs -> Items]

includes(list, x) == \E j \in 1..Len(list) : list[j] = x

RemoveAt(s, k) == SubSeq(s, 1, k - 1) \o SubSeq(s, k + 1, Len(s))

Frame(h, parents, pcf, data) ==
  [href |-> h, parents |-> parents, pos |-> 1, pc |-> pcf, data |-> data]

InitLoader ==
  /\ manifest \in Manifests
  /\ cache = [h \in Hrefs |-> None]
  /\ children = [h \in Hrefs |-> None]
  /\ refCount = [h \in Hrefs |-> None]
  /\ tasks = <<>> /\ ustack = <<>> /\ nurls = 0 /\ revoked = {}
  /\ held = [h \in Hrefs |-> 0]
  /\ calls = 0 /\ sequential = TRUE /\ destroyed = FALSE
  /\ NoText /\ NoTree

\* the value an async call returns reaches the caller awaiting it: the frame
\* below resumes at its next reference, or the top-level call completes
Return(ts, t, rest, h, gotURL) ==
  IF rest = <<>>
    THEN /\ tasks' = RemoveAt(ts, t)
         /\ held' = IF gotURL THEN [held EXCEPT ![h] = @ + 1] ELSE held
    ELSE /\ tasks' = [ts EXCEPT ![t] =
                        Front(rest) \o <<[Last(rest) EXCEPT !.pos = @ + 1]>>]
         /\ held' = held

\* a rejected promise propagates through every awaiting frame of the call
Reject(t) ==
  /\ tasks' = RemoveAt(tasks, t)
  /\ UNCHANGED <<cache, children, refCount, nurls, held>>

\* ref(href, parent)
ref(h, parent) ==
  LET childList == children[parent]
  IN /\ IF childList = None \/ ~includes(childList[1], h)
          THEN /\ refCount' = [refCount EXCEPT ![h] =
                                 Some((IF @ = None THEN 0 ELSE @[1]) + 1)]
               /\ children' = [children EXCEPT ![parent] =
                                 IF childList # None THEN Some(Append(childList[1], h))
                                 ELSE Some(<<h>>)]
          ELSE UNCHANGED <<refCount, children>>
     /\ UNCHANGED <<cache, nurls>>

\* loadItem, line 577: with "prevent circular references" left out
shouldReplaceAnyParents(mediaType, h, parents) == mediaType \in {"script", "doc"}

\* loadItem, lines 574-577
shouldReplace(mediaType, h, parents) ==
  /\ mediaType \in {"script", "doc"}
  /\ \A j \in 1..Len(parents) : parents[j] # h

\* loadItem(item, parents) up to its first await; rest: the frames awaiting it
loadItem(ts, t, rest, h, parents) ==
  LET mediaType == manifest[h].mediaType
      isScript == mediaType = "script"
      parent == IF parents = <<>> THEN None ELSE Some(Last(parents))
  IN IF isScript /\ ~allowScript
       THEN /\ Return(ts, t, rest, h, FALSE)
            /\ UNCHANGED <<cache, children, refCount, nurls>>
     ELSE IF cache[h] # None /\ parent # None
       THEN /\ ref(h, parent[1])
            /\ Return(ts, t, rest, h, TRUE)
     ELSE /\ tasks' = [ts EXCEPT ![t] = rest \o
                         <<IF shouldReplace(mediaType, h, parents)
                             THEN Frame(h, parents, "loadText", "none")
                             ELSE Frame(h, parents, "createURL", "blob")>>]
          /\ UNCHANGED <<cache, children, refCount, nurls, held>>

\* a top-level loadItem(item)
Call(h) ==
  /\ ustack = <<>> /\ ~destroyed /\ calls < MaxCalls
  /\ calls' = calls + 1
  /\ sequential' = (sequential /\ tasks = <<>>)
  /\ loadItem(Append(tasks, <<>>), Len(tasks) + 1, <<>>, h, <<>>)
  /\ UNCHANGED <<manifest, ustack, revoked, destroyed>>
  /\ UNCHANGED <<cfiVars, treeVars>>

\* loadReplaced, lines 593-599: loadText settles
LoadText(t) ==
  /\ ustack = <<>> /\ t \in 1..Len(tasks)
  /\ LET f == Last(tasks[t])
         rest == Front(tasks[t])
     IN /\ f.pc = "loadText"
        /\ \E outcome \in {"text", "empty", "error"} :
             IF outcome = "text"
               THEN /\ tasks' = [tasks EXCEPT ![t] = rest \o <<[f EXCEPT !.pc = "replace"]>>]
                    /\ held' = held
             ELSE IF outcome = "empty"
               THEN Return(tasks, t, rest, f.href, FALSE)
             ELSE /\ tasks' = [tasks EXCEPT ![t] =
                                 rest \o <<[f EXCEPT !.pc = "createURL", !.data = "rejected"]>>]
                  /\ held' = held
  /\ UNCHANGED <<manifest, cache, children, refCount, ustack, nurls, revoked,
                 calls, sequential, destroyed>>
  /\ UNCHANGED <<cfiVars, treeVars>>

\* loadReplaced, lines 611-666: the next reference goes through loadHref to
\* loadItem(item, parents.concat(base)); after the last one, createURL is called
Replace(t) ==
  /\ ustack = <<>> /\ t \in 1..Len(tasks)
  /\ LET f == Last(tasks[t])
         refs == manifest[f.href].refs
     IN /\ f.pc = "replace"
        /\ IF f.pos <= Len(refs)
             THEN /\ Len(tasks[t]) < MaxDepth
                  /\ loadItem(tasks, t, tasks[t], refs[f.pos], Append(f.parents, f.href))
             ELSE /\ tasks' = [tasks EXCEPT ![t] =
                                 Front(tasks[t]) \o <<[f EXCEPT !.pc = "createURL", !.data = "text"]>>]
                  /\ UNCHANGED <<cache, children, refCount, nurls, held>>
  /\ UNCHANGED <<manifest, ustack, revoked, calls, sequential, destroyed>>
  /\ UNCHANGED <<cfiVars, treeVars>>

\* createURL, lines 526-536: the data settles, then the URL is made and stored
CreateURL(t) ==
  /\ ustack = <<>> /\ t \in 1..Len(tasks)
  /\ LET f == Last(tasks[t])
         rest == Front(tasks[t])
         h == f.href
         url == nurls + 1
     IN /\ f.pc = "createURL"
        /\ \E settled \in {"fulfilled", "rejected"} :
             /\ f.data = "rejected" => settled = "rejected"
             /\ f.data = "text" => settled = "fulfilled"
             /\ IF settled = "rejected"
                  THEN Reject(t)
                  ELSE /\ nurls' = url
                       /\ cache' = [cache EXCEPT ![h] = Some(url)]
                       /\ refCount' = [refCount EXCEPT ![h] = Some(1)]
                       /\ children' =
                            IF f.parents = <<>> THEN children
                            ELSE [children EXCEPT ![Last(f.parents)] =
                                    IF @ # None THEN Some(Append(@[1], h)) ELSE Some(<<h>>)]
                       /\ Return(tasks, t, rest, h, TRUE)
  /\ UNCHANGED <<manifest, ustack, revoked, calls, sequential, destroyed>>
  /\ UNCHANGED <<cfiVars, treeVars>>

\* unref(href) up to its while loop; stk: the unref calls running around it
unref(h, stk) ==
  IF refCount[h] = None
    THEN /\ ustack' = stk
         /\ UNCHANGED <<cache, refCount, revoked>>
    ELSE LET count == refCount[h][1] - 1
         IN IF count < 1
              THEN /\ revoked' = revoked \cup (IF cache[h] = None THEN {} ELSE {cache[h][1]})
                   /\ cache' = [cache EXCEPT ![h] = None]
                   /\ refCount' = [refCount EXCEPT ![h] = None]
                   /\ ustack' = Append(stk, h)
              ELSE /\ refCount' = [refCount EXCEPT ![h] = Some(count)]
                   /\ ustack' = stk
                   /\ UNCHANGED <<cache, revoked>>

\* unloadItem(item), for a load that returned a URL and is not yet unloaded
UnloadItem(h) ==
  /\ ustack = <<>> /\ ~destroyed /\ held[h] > 0
  /\ held' = [held EXCEPT ![h] = @ - 1]
  /\ sequential' = (sequential /\ tasks = <<>>)
  /\ unref(h, <<>>)
  /\ UNCHANGED <<manifest, children, tasks, nurls, calls, destroyed>>
  /\ UNCHANGED <<cfiVars, treeVars>>

\* unref, lines 558-560: one turn of the while loop, or its end
UnrefLoop ==
  /\ ustack # <<>>
  /\ LET h == Last(ustack)
         childList == children[h]
     IN IF childList # None /\ childList[1] # <<>>
          THEN /\ children' = [children EXCEPT ![h] = Some(Front(childList[1]))]
               /\ unref(Last(childList[1]), ustack)
          ELSE /\ children' = [children EXCEPT ![h] = None]
               /\ ustack' = Front(ustack)
               /\ UNCHANGED <<cache, refCount, revoked>>
  /\ UNCHANGED <<manifest, tasks, nurls, held, calls, sequential, destroyed>>
  /\ UNCHANGED <<cfiVars, treeVars>>

\* destroy()
Destroy ==
  /\ ustack = <<>> /\ ~destroyed
  /\ destroyed' = TRUE
  /\ revoked' = revoked \cup {cache[h][1] : h \in {x \in Hrefs : cache[x] # None}}
  /\ UNCHANGED <<manifest, cache, children, refCount, tasks, ustack, nurls,
                 held, calls, sequential>>
  /\ UNCHANGED <<cfiVars, treeVars>>

TaskStep == \E t \in 1..MaxCalls : LoadText(t) \/ Replace(t) \/ CreateURL(t)

NextLoader ==
  \/ \E h \in Hrefs : Call(h)
  \/ TaskStep
  \/ \E h \in Hrefs : UnloadItem(h)
  \/ UnrefLoop
  \/ Destroy

SpecLoader == InitLoader /\ [][NextLoader]_vars

\* every runnable continuation is run, the host's promises settle, and
\* synchronous code runs to its end
SpecLoaderFair == SpecLoader /\ WF_vars(TaskStep) /\ WF_vars(UnrefLoop)

-----------------------------------------------------------------------------
(* Claims about the Loader. *)

Cached(h) == cache[h] # None

Quiet == tasks = <<>> /\ ustack = <<>>

\* C17: after any sequence of completed loadItem and unloadItem calls, made
\* one after the other, an href listed as a child of a still-cached parent is
\* itself still cached (its object URL has not been revoked).
C17_NoUseAfterRevoke ==
  (Quiet /\ sequential /\ ~destroyed) =>
    \A p \in Hrefs :
      (Cached(p) /\ children[p] # None) =>
        \A j \in 1..Len(children[p][1]) : Cached(children[p][1][j])

\* C18: in any interleaving of loadItem and unloadItem calls, every object
\* URL that createURL has made is the URL the cache holds for its href, or
\* has been revoked.
C18_NoLeak ==
  \A u \in 1..nurls : u \in revoked \/ \E h \in Hrefs : cache[h] = Some(u)

\* the frames of all calls in flight
Frames == UNION {{tasks[t][k] : k \in 1..Len(tasks[t])} : t \in 1..Len(tasks)}

OnOwnChain(f) == includes(f.parents, f.href)

\* an item met again on its own parents chain is fetched as a plain blob
BlobOnChain ==
  \A f \in Frames : OnOwnChain(f) => (f.pc = "createURL" /\ f.data = "blob")

\* the rewrites nested in one call are of different items
DistinctRewrites ==
  \A t \in 1..Len(tasks) : \A j \in 1..Len(tasks[t]) : \A k \in 1..Len(tasks[t]) :
    (j < k /\ tasks[t][k].pc # "createURL") => tasks[t][j].href # tasks[t][k].href

\* C19: whatever the manifest, cyclic ones included, every loadItem call in
\* flight completes, an item already on the parents chain being loaded as a
\* plain blob and never rewritten again, and every unloadItem returns, even
\* when the recorded children relation has a cycle.
C19_Termination ==
  /\ [](BlobOnChain /\ DistinctRewrites)
  /\ (tasks # <<>>) ~> (tasks = <<>>)
  /\ (ustack # <<>>) ~> (ustack = <<>>)

\* unref is running on an item whose recorded children lead back to it, after
\* a load that met the item again on its own parents chain
C19_Witness ==
  /\ ustack # <<>>
  /\ \E g \in Hrefs :
       /\ g # ustack[1]
       /\ children[ustack[1]] # None /\ includes(children[ustack[1]][1], g)
       /\ children[g] # None /\ includes(children[g][1], ustack[1])


====
